---- MODULE Spec2Model ----
(***************************************************************************)
(* Model of the GMR analysis layer (src/analysis.py) and of the way the    *)
(* presentation layer (src/app.py) hands one table to its seven            *)
(* calculators.                                                            *)
(*                                                                         *)
(* A table is [columns |-> sequence of column names, rows |-> sequence of  *)
(* rows]; a row is a function from column name to cell.  Cells of the two  *)
(* time columns are [type, text] pairs so that the number -1 and the       *)
(* string "-1" are different values that can still be compared.            *)
(* Floating-point quotients are kept as exact fractions [num, den]; the    *)
(* rounding of the float division is not modelled.                         *)
(***************************************************************************)
EXTENDS Integers, Sequences, FiniteSets, TLC

VARIABLES df, orig, last

vars == <<df, orig, last>>

(***************************************************************************)
(* Bounds of the input families.                                           *)
(***************************************************************************)
\* rows of a freely chosen table
MaxRows == 2
\* largest zone id of the freely chosen visits
MaxZone == 2
\* longest run of consecutive zones one object walks through
MaxJourney == 7
\* largest block of rows added for one object
MaxBulk == 52
\* number of distinct parseable timestamps
MaxTime == 3
\* rows of a table whose entry times are freely chosen
MaxTimeRows == 4

(***************************************************************************)
(* Cell values.                                                            *)
(***************************************************************************)
IntCell(n) == [type |-> "int", text |-> ToString(n)]
StrCell(s) == [type |-> "str", text |-> s]

\* python: cell == n, for a number n (a string never equals a number)
EqNum(cell, n) == cell.type = "int" /\ cell.text = ToString(n)
\* python: cell == s, for a string s (a number never equals a string)
EqStr(cell, s) == cell.type = "str" /\ cell.text = s

ObjectIds == {"A", "B", "C"}

\* Text of the k-th parseable timestamp; later k is a later time.
TimeText(k) == "2024-01-0" \o ToString(k)
Garbage == "not a date"

RequiredColumns ==
    <<"global_object_id", "zone_id", "zone_entry_time", "zone_exit_time", "dwell_time">>

Row(o, z, entry, exit) ==
    [c \in {RequiredColumns[i] : i \in DOMAIN RequiredColumns} |->
        CASE c = "global_object_id" -> o
          [] c = "zone_id" -> z
          [] c = "zone_entry_time" -> entry
          [] c = "zone_exit_time" -> exit
          [] c = "dwell_time" -> 0]

Table(rows) == [columns |-> RequiredColumns, rows |-> rows]

(***************************************************************************)
(* pandas helpers.                                                         *)
(***************************************************************************)
RECURSIVE SortedSeq(_)
\* sorted(S) for a finite set of integers
SortedSeq(S) ==
    IF S = {} THEN <<>>
    ELSE LET m == CHOOSE x \in S : \A y \in S : x <= y
         IN <<m>> \o SortedSeq(S \ {m})

RECURSIVE SumOver(_, _)
\* sum of f[x] over x in S
SumOver(f, S) ==
    IF S = {} THEN 0
    ELSE LET x == CHOOSE y \in S : TRUE
         IN f[x] + SumOver(f, S \ {x})

\* df[col].unique()
Unique(t, col) == {t.rows[i][col] : i \in DOMAIN t.rows}

\* df[df['zone_id'] == z]['global_object_id'].unique()
ZoneVisitors(t, z) ==
    {t.rows[i]["global_object_id"] : i \in {j \in DOMAIN t.rows : t.rows[j]["zone_id"] = z}}

\* df.groupby('global_object_id')['zone_id'].apply(set)
PersonZones(t) ==
    [o \in Unique(t, "global_object_id") |->
        {t.rows[i]["zone_id"] : i \in {j \in DOMAIN t.rows : t.rows[j]["global_object_id"] = o}}]

\* df.groupby('global_object_id').size()
GroupSizes(t) ==
    [o \in Unique(t, "global_object_id") |->
        Cardinality({j \in DOMAIN t.rows : t.rows[j]["global_object_id"] = o})]

\* the factor 100 dropped: a fraction of one instead of a percentage
Percent_Fraction(count, total) ==
    IF total > 0 THEN [num |-> count, den |-> total] ELSE [num |-> 0, den |-> 1]

\* the guard dropped: with total = 0 the quotient is 0/0
Percent_Unguarded(count, total) == [num |-> count * 100, den |-> total]

\* (count / total * 100) if total > 0 else 0
Percent(count, total) ==
    IF total > 0 THEN [num |-> count * 100, den |-> total] ELSE [num |-> 0, den |-> 1]

(***************************************************************************)
(* calculate_conversion_rates                                              *)
(***************************************************************************)
EntranceZone == 1

\* the zone filter dropped: every object counts as an entrance visitor
Zone1Visitors_AnyZone(t) == Unique(t, "global_object_id")

\* set(df[df['zone_id'] == 1]['global_object_id'].unique())
Zone1Visitors(t) == ZoneVisitors(t, EntranceZone)

\* sorted([z for z in df['zone_id'].unique() if z != 1])
AllZones(t) == SortedSeq({z \in Unique(t, "zone_id") : z # EntranceZone})

ConversionCount(t, zone) == Cardinality(Zone1Visitors(t) \cap ZoneVisitors(t, zone))

calculate_conversion_rates(t) ==
    LET all_zones == AllZones(t)
    IN [k \in 1..Len(all_zones) |->
           ("Zone ID" :> all_zones[k]) @@
           ("Unique Conversion Count" :> ConversionCount(t, all_zones[k]))]

(***************************************************************************)
(* calculate_zone_frequency                                                *)
(***************************************************************************)
Max2(a, b) == IF a >= b THEN a ELSE b

\* the restriction to entrance visitors dropped
ZoneCounts_Everyone(t) ==
    LET person_zones == PersonZones(t)
    IN [o \in DOMAIN person_zones |-> Cardinality(person_zones[o])]

\* person_zones[person_zones.apply(lambda zones: 1 in zones)].apply(len)
ZoneCounts(t) ==
    LET person_zones == PersonZones(t)
        people_with_zone1 == {o \in DOMAIN person_zones : EntranceZone \in person_zones[o]}
    IN [o \in people_with_zone1 |-> Cardinality(person_zones[o])]

\* max(zone_counts) if len(zone_counts) > 0 else 5
MaxZones(zone_counts) ==
    IF DOMAIN zone_counts # {}
    THEN CHOOSE m \in {zone_counts[o] : o \in DOMAIN zone_counts} :
             \A o \in DOMAIN zone_counts : zone_counts[o] <= m
    ELSE 5

\* range(1, max_zones + 1): the floor of five rows dropped
Thresholds_NoFloor(zone_counts) == 1..MaxZones(zone_counts)

\* range(1, max(6, max_zones + 1))
Thresholds(zone_counts) == 1..(Max2(6, MaxZones(zone_counts) + 1) - 1)

\* == in place of >=: the counts are no longer cumulative
CumulativeCount_Exact(zone_counts, threshold) ==
    Cardinality({o \in DOMAIN zone_counts : zone_counts[o] = threshold})

\* (zone_counts >= threshold).sum()
CumulativeCount(zone_counts, threshold) ==
    Cardinality({o \in DOMAIN zone_counts : zone_counts[o] >= threshold})

calculate_zone_frequency(t) ==
    LET zone_counts == ZoneCounts(t)
    IN [threshold \in Thresholds(zone_counts) |->
           ("Number of Zones" :> (ToString(threshold) \o "+")) @@
           ("Count" :> CumulativeCount(zone_counts, threshold))]

(***************************************************************************)
(* calculate_missing_zone1_percentage                                      *)
(***************************************************************************)
\* returns (percentage, missing_count, total_people)
calculate_missing_zone1_percentage(t) ==
    LET all_people == Unique(t, "global_object_id")
        zone1_people == ZoneVisitors(t, EntranceZone)
        people_without_zone1 == all_people \ zone1_people
        total_people == Cardinality(all_people)
        missing_count == Cardinality(people_without_zone1)
    IN <<Percent(missing_count, total_people), missing_count, total_people>>

(***************************************************************************)
(* get_summary_statistics                                                  *)
(***************************************************************************)
None == <<>>

HasColumn(t, c) == \E i \in DOMAIN t.columns : t.columns[i] = c

\* the sentinel filter dropped: "-1" reaches the parser
ValidTimes_Unfiltered(t) == [i \in DOMAIN t.rows |-> t.rows[i]["zone_entry_time"]]

\* df[df['zone_entry_time'] != '-1']['zone_entry_time']
ValidTimes(t) ==
    LET keep == SelectSeq(t.rows, LAMBDA r : ~EqStr(r["zone_entry_time"], "-1"))
    IN [i \in DOMAIN keep |-> keep[i]["zone_entry_time"]]

\* pd.to_datetime accepts the text of a timestamp and raises on any other text
Parseable(cell) == \E k \in 1..MaxTime : cell.text = TimeText(k)
Timestamp(cell) == CHOOSE k \in 1..MaxTime : cell.text = TimeText(k)

\* try: times = pd.to_datetime(valid_times); (times.min(), times.max())
\* except: pass        -- one value that does not parse raises for the whole column
DateRange(valid_times) ==
    IF \A i \in DOMAIN valid_times : Parseable(valid_times[i])
    THEN LET times == {Timestamp(valid_times[i]) : i \in DOMAIN valid_times}
         IN <<CHOOSE a \in times : \A b \in times : a <= b,
              CHOOSE a \in times : \A b \in times : a >= b>>
    ELSE None

get_summary_statistics(t) ==
    [total_records |-> Len(t.rows),
     unique_objects |-> Cardinality(Unique(t, "global_object_id")),
     unique_zones |-> Cardinality(Unique(t, "zone_id")),
     unique_property_enter |-> Cardinality(ZoneVisitors(t, EntranceZone)),
     date_range |->
        IF HasColumn(t, "zone_entry_time") /\ Len(ValidTimes(t)) > 0
        THEN DateRange(ValidTimes(t))
        ELSE None]

(***************************************************************************)
(* calculate_records_distribution                                          *)
(***************************************************************************)
CategoryNames == <<"1", "2-5", "6-10", "11-20", "21-50", ">50">>

\* x > 6 in place of x >= 6: a row count of 6 falls in no category
DistributionCategory_Gap(name, x) ==
    CASE name = "1" -> x = 1
      [] name = "2-5" -> (x >= 2) /\ (x <= 5)
      [] name = "6-10" -> (x > 6) /\ (x <= 10)
      [] name = "11-20" -> (x >= 11) /\ (x <= 20)
      [] name = "21-50" -> (x >= 21) /\ (x <= 50)
      [] name = ">50" -> x > 50

\* the conditions of the categories list of calculate_records_distribution
DistributionCategory(name, x) ==
    CASE name = "1" -> x = 1
      [] name = "2-5" -> (x >= 2) /\ (x <= 5)
      [] name = "6-10" -> (x >= 6) /\ (x <= 10)
      [] name = "11-20" -> (x >= 11) /\ (x <= 20)
      [] name = "21-50" -> (x >= 21) /\ (x <= 50)
      [] name = ">50" -> x > 50

\* A float is a fraction [num, den]; den = 0 is NaN.
NaN == [num |-> 0, den |-> 0]

RECURSIVE SortedSizes(_, _)
\* the values of group_sizes in ascending order, with repetitions
SortedSizes(group_sizes, S) ==
    IF S = {} THEN <<>>
    ELSE LET o == CHOOSE x \in S : \A y \in S : group_sizes[x] <= group_sizes[y]
         IN <<group_sizes[o]>> \o SortedSizes(group_sizes, S \ {o})

\* mean, median, min, max of group_sizes; std is kept as its square (the sample
\* variance), NaN with fewer than two objects
SizeStats(group_sizes) ==
    LET n == Cardinality(DOMAIN group_sizes)
        sorted == SortedSizes(group_sizes, DOMAIN group_sizes)
        sum == SumOver(group_sizes, DOMAIN group_sizes)
        squares == SumOver([o \in DOMAIN group_sizes |-> group_sizes[o] * group_sizes[o]],
                           DOMAIN group_sizes)
    IN [mean |-> [num |-> sum, den |-> n],
        median |-> IF n = 0 THEN NaN
                   ELSE [num |-> sorted[(n + 1) \div 2] + sorted[(n + 2) \div 2], den |-> 2],
        min |-> IF n = 0 THEN NaN ELSE [num |-> sorted[1], den |-> 1],
        max |-> IF n = 0 THEN NaN ELSE [num |-> sorted[n], den |-> 1],
        std_squared |-> IF n < 2 THEN NaN
                        ELSE [num |-> n * squares - sum * sum, den |-> n * (n - 1)]]

\* condition(group_sizes).sum()
DistributionCount(group_sizes, name) ==
    Cardinality({o \in DOMAIN group_sizes : DistributionCategory(name, group_sizes[o])})

\* returns (distribution_df, stats)
calculate_records_distribution(t) ==
    LET group_sizes == GroupSizes(t)
        total == Cardinality(DOMAIN group_sizes)
    IN <<[k \in DOMAIN CategoryNames |->
            LET count == DistributionCount(group_sizes, CategoryNames[k])
            IN ("Records per Object" :> CategoryNames[k]) @@
               ("Number of Objects" :> count) @@
               ("Percentage" :> Percent(count, total))],
         SizeStats(group_sizes)>>

(***************************************************************************)
(* calculate_enter_exit_analysis                                           *)
(***************************************************************************)
\* only the number is compared: the string "-1" counts as an exit time
HasExit_NumericOnly(row) == ~EqNum(row["zone_exit_time"], -1)

\* ~((df['zone_exit_time'] == -1) | (df['zone_exit_time'] == '-1'))
HasExit(row) ==
    ~(EqNum(row["zone_exit_time"], -1) \/ EqStr(row["zone_exit_time"], "-1"))

\* the table is also narrowed in place to its rows with an exit time
AssignHasExit_DropRows(t) ==
    LET kept == SelectSeq(t.rows, HasExit)
    IN [columns |-> IF HasColumn(t, "has_exit") THEN t.columns
                    ELSE Append(t.columns, "has_exit"),
        rows |-> [i \in DOMAIN kept |->
                    [c \in (DOMAIN kept[i]) \cup {"has_exit"} |->
                        IF c = "has_exit" THEN TRUE ELSE kept[i][c]]]]

\* df['has_exit'] = ...: column assignment on the table the function was given
AssignHasExit(t) ==
    [columns |-> IF HasColumn(t, "has_exit") THEN t.columns
                 ELSE Append(t.columns, "has_exit"),
     rows |-> [i \in DOMAIN t.rows |->
                 [c \in (DOMAIN t.rows[i]) \cup {"has_exit"} |->
                     IF c = "has_exit" THEN HasExit(t.rows[i]) ELSE t.rows[i][c]]]]

\* x >= 50 in place of x > 50: a row count of 50 falls in two categories
EnterExitCategory_Overlap(name, x) ==
    CASE name = "1" -> x = 1
      [] name = "2-5" -> (x >= 2) /\ (x <= 5)
      [] name = "6-10" -> (x >= 6) /\ (x <= 10)
      [] name = "11-20" -> (x >= 11) /\ (x <= 20)
      [] name = "21-50" -> (x >= 21) /\ (x <= 50)
      [] name = ">50" -> x >= 50

\* the conditions of the categories list of calculate_enter_exit_analysis
EnterExitCategory(name, x) ==
    CASE name = "1" -> x = 1
      [] name = "2-5" -> (x >= 2) /\ (x <= 5)
      [] name = "6-10" -> (x >= 6) /\ (x <= 10)
      [] name = "11-20" -> (x >= 11) /\ (x <= 20)
      [] name = "21-50" -> (x >= 21) /\ (x <= 50)
      [] name = ">50" -> x > 50

\* group_sizes[condition(group_sizes)].index
CategoryObjects(group_sizes, name) ==
    {o \in DOMAIN group_sizes : EnterExitCategory(name, group_sizes[o])}

\* the summary dict, computed on the table that carries has_exit
EnterExitSummary(t) ==
    LET total_records == Len(t.rows)
        records_with_exit == Cardinality({i \in DOMAIN t.rows : t.rows[i]["has_exit"]})
        records_without_exit == total_records - records_with_exit
    IN [total_records |-> total_records,
        with_exit |-> records_with_exit,
        without_exit |-> records_without_exit,
        exit_percentage |-> Percent(records_with_exit, total_records)]

\* one row of analysis_data
EnterExitRow(t, name, object_ids) ==
    LET category_records ==
            {i \in DOMAIN t.rows : t.rows[i]["global_object_id"] \in object_ids}
        total_cat_records == Cardinality(category_records)
        with_exit == Cardinality({i \in category_records : t.rows[i]["has_exit"]})
        without_exit == total_cat_records - with_exit
    IN ("Records per Object" :> name) @@
       ("Total Records" :> total_cat_records) @@
       ("With Exit" :> with_exit) @@
       ("Without Exit" :> without_exit) @@
       ("Exit %" :> Percent(with_exit, total_cat_records))

\* the skip of empty categories dropped: all six rows are emitted
EnterExitRows_NoSkip(t) ==
    LET group_sizes == GroupSizes(t)
    IN [k \in DOMAIN CategoryNames |->
           EnterExitRow(t, CategoryNames[k], CategoryObjects(group_sizes, CategoryNames[k]))]

\* the loop over categories: a category with no object is skipped
EnterExitRows(t) ==
    LET group_sizes == GroupSizes(t)
        emitted == SelectSeq(CategoryNames,
                             LAMBDA name : CategoryObjects(group_sizes, name) # {})
    IN [k \in DOMAIN emitted |->
           EnterExitRow(t, emitted[k], CategoryObjects(group_sizes, emitted[k]))]

\* returns (analysis_df, summary); t already carries has_exit
calculate_enter_exit_analysis(t) == <<EnterExitRows(t), EnterExitSummary(t)>>

(***************************************************************************)
(* get_group_size_histogram_data                                           *)
(***************************************************************************)
\* (group_sizes == i).sum()
ExactCount(group_sizes, i) == Cardinality({o \in DOMAIN group_sizes : group_sizes[o] = i})

\* >= in place of >: objects with exactly max_value rows are counted twice
AboveMax_Inclusive(group_sizes, max_value) ==
    Cardinality({o \in DOMAIN group_sizes : group_sizes[o] >= max_value})

\* (group_sizes > max_value).sum()
AboveMax(group_sizes, max_value) ==
    Cardinality({o \in DOMAIN group_sizes : group_sizes[o] > max_value})

get_group_size_histogram_data(t, max_value) ==
    LET group_sizes == GroupSizes(t)
        values == SelectSeq([i \in 1..max_value |-> i],
                            LAMBDA i : ExactCount(group_sizes, i) > 0)
        bounded == [k \in DOMAIN values |->
                      ("Records" :> IntCell(values[k])) @@
                      ("Frequency" :> ExactCount(group_sizes, values[k]))]
    IN IF AboveMax(group_sizes, max_value) > 0
       THEN Append(bounded,
                   ("Records" :> StrCell(">" \o ToString(max_value))) @@
                   ("Frequency" :> AboveMax(group_sizes, max_value)))
       ELSE bounded

(***************************************************************************)
(* Input tables.                                                           *)
(***************************************************************************)
EntryCells == {StrCell("-1"), StrCell(Garbage)} \cup {StrCell(TimeText(k)) : k \in 1..MaxTime}
ExitCells == {IntCell(-1), StrCell("-1"), StrCell(TimeText(1))}

\* all sequences over S of length at most n
SeqsUpTo(S, n) == UNION {[1..k -> S] : k \in 0..n}

\* the order in which the objects' rows are laid out in a generated table
ObjectOrder == <<"A", "B", "C">>
VisitBefore(v, w) ==
    LET iv == CHOOSE i \in DOMAIN ObjectOrder : ObjectOrder[i] = v[1]
        iw == CHOOSE i \in DOMAIN ObjectOrder : ObjectOrder[i] = w[1]
    IN iv < iw \/ (iv = iw /\ v[2] <= w[2])

RECURSIVE VisitRows(_)
\* one row per (object, zone) pair of the set, by object and then by zone
VisitRows(visits) ==
    IF visits = {} THEN <<>>
    ELSE LET v == CHOOSE x \in visits : \A y \in visits : VisitBefore(x, y)
         IN <<Row(v[1], v[2], StrCell(TimeText(1)), StrCell(TimeText(1)))>>
            \o VisitRows(visits \ {v})

\* object o walks through the zones first, first+1, ..., first+len-1
JourneyRows(o, first, len) ==
    [i \in 1..len |-> Row(o, first + i - 1, StrCell(TimeText(1)), StrCell(TimeText(1)))]

\* n rows of object o in the entrance zone with the same exit cell
BulkRows(o, n, exit) ==
    [i \in 1..n |-> Row(o, EntranceZone, StrCell(TimeText(1)), exit)]

\* small tables in which every column varies
SmallTables ==
    {Table(rows) : rows \in SeqsUpTo({Row(o, z, entry, exit) :
                                         o \in {"A", "B"}, z \in 1..2,
                                         entry \in {StrCell("-1"), StrCell(TimeText(1))},
                                         exit \in ExitCells},
                                     MaxRows)}

\* tables for the zone calculators: any set of visits plus one journey
ZoneTables ==
    {Table(VisitRows(visits) \o JourneyRows("A", first, len)) :
        visits \in SUBSET (ObjectIds \X (1..MaxZone)),
        first \in {EntranceZone, EntranceZone + 1},
        len \in 0..MaxJourney}

\* tables for the date range: one object, any entry-time cells
TimeTables ==
    {Table(rows) : rows \in SeqsUpTo({Row("A", EntranceZone, entry, StrCell("-1")) :
                                         entry \in EntryCells},
                                     MaxTimeRows)}

\* tables for the row-count calculators: a few free rows plus one block of rows
SizeTables ==
    {Table(rows \o BulkRows("A", n, exit)) :
        rows \in SeqsUpTo({Row(o, EntranceZone, StrCell(TimeText(1)), e) :
                              o \in {"A", "B"}, e \in {IntCell(-1), StrCell(TimeText(1))}},
                          MaxRows),
        n \in 0..MaxBulk,
        exit \in ExitCells}

(***************************************************************************)
(* The presentation layer: one uploaded table, handed to the calculators.  *)
(***************************************************************************)
Loaded(tables) ==
    /\ df \in tables
    /\ orig = df
    /\ last = [fn |-> "none", result |-> None]

Init == Loaded(SmallTables)
InitZones == Loaded(ZoneTables)
InitTimes == Loaded(TimeTables)
InitSizes == Loaded(SizeTables)

Returned(fn, result) == last' = [fn |-> fn, result |-> result]

GetSummaryStatistics ==
    /\ Returned("get_summary_statistics", get_summary_statistics(df))
    /\ UNCHANGED <<df, orig>>

CalculateConversionRates ==
    /\ Returned("calculate_conversion_rates", calculate_conversion_rates(df))
    /\ UNCHANGED <<df, orig>>

CalculateZoneFrequency ==
    /\ Returned("calculate_zone_frequency", calculate_zone_frequency(df))
    /\ UNCHANGED <<df, orig>>

CalculateMissingZone1Percentage ==
    /\ Returned("calculate_missing_zone1_percentage", calculate_missing_zone1_percentage(df))
    /\ UNCHANGED <<df, orig>>

CalculateRecordsDistribution ==
    /\ Returned("calculate_records_distribution", calculate_records_distribution(df))
    /\ UNCHANGED <<df, orig>>

DefaultMaxValue == 50
HistogramBounds == {1, 3, DefaultMaxValue}

GetGroupSizeHistogramData ==
    \E max_value \in HistogramBounds :
        /\ Returned("get_group_size_histogram_data",
                    <<max_value, get_group_size_histogram_data(df, max_value)>>)
        /\ UNCHANGED <<df, orig>>

\* the caller's table itself receives the has_exit column
CalculateEnterExitAnalysis ==
    /\ df' = AssignHasExit(df)
    /\ Returned("calculate_enter_exit_analysis", calculate_enter_exit_analysis(df'))
    /\ UNCHANGED orig

Next ==
    \/ GetSummaryStatistics
    \/ CalculateConversionRates
    \/ CalculateZoneFrequency
    \/ CalculateMissingZone1Percentage
    \/ CalculateRecordsDistribution
    \/ GetGroupSizeHistogramData
    \/ CalculateEnterExitAnalysis

Spec == Init /\ [][Next]_vars
SpecZones == InitZones /\ [][Next]_vars
SpecTimes == InitTimes /\ [][Next]_vars
SpecSizes == InitSizes /\ [][Next]_vars

(***************************************************************************)
(* Reference notions used by the properties, stated on the rows directly.  *)
(***************************************************************************)
RECURSIVE SeqSum(_, _)
\* the sum of one column of a result table
SeqSum(s, key) ==
    IF s = <<>> THEN 0 ELSE s[1][key] + SeqSum(Tail(s), key)

\* the distinct object ids of the table
Ids == {df.rows[i]["global_object_id"] : i \in DOMAIN df.rows}
\* object o has a row in zone z
Visited(o, z) ==
    \E i \in DOMAIN df.rows :
        df.rows[i]["global_object_id"] = o /\ df.rows[i]["zone_id"] = z
\* the objects with at least one row in zone 1
Entrants == {o \in Ids : Visited(o, 1)}
\* the number of distinct zones object o has a row in
DistinctZones(o) ==
    Cardinality({z \in {df.rows[i]["zone_id"] : i \in DOMAIN df.rows} : Visited(o, z)})
\* the number of rows of object o
RowCount(o) == Cardinality({i \in DOMAIN df.rows : df.rows[i]["global_object_id"] = o})

(***************************************************************************)
(* C1: calculate_enter_exit_analysis leaves the caller's table as it was:  *)
(* after the call the table has the same columns and the same rows as      *)
(* before.  The code assigns the has_exit column on the table it is given  *)
(* (analysis.py:206) and app.py:309 passes its own table, so this fails.   *)
(***************************************************************************)
C1_CallerTableUnchanged ==
    (last.fn = "calculate_enter_exit_analysis") =>
        (df.columns = orig.columns /\ df.rows = orig.rows)

(***************************************************************************)
(* C2: calculate_conversion_rates returns exactly one row per distinct     *)
(* zone other than 1, in strictly ascending zone order; each count is the  *)
(* number of distinct objects with a row in zone 1 and a row in that zone. *)
(* So the output is empty when no zone other than 1 occurs and all counts  *)
(* are 0 when zone 1 never occurs.                                         *)
(***************************************************************************)
C2_ConversionRates ==
    (last.fn = "calculate_conversion_rates") =>
        LET r == last.result
            zones == {df.rows[i]["zone_id"] : i \in DOMAIN df.rows}
            others == zones \ {1}
        IN /\ Len(r) = Cardinality(others)
           /\ {r[k]["Zone ID"] : k \in DOMAIN r} = others
           /\ \A k \in DOMAIN r : \A m \in DOMAIN r :
                  k < m => r[k]["Zone ID"] < r[m]["Zone ID"]
           /\ \A k \in DOMAIN r :
                  r[k]["Unique Conversion Count"] =
                      Cardinality({o \in Ids : Visited(o, 1) /\ Visited(o, r[k]["Zone ID"])})
           /\ (others = {} => r = <<>>)
           /\ (1 \notin zones => \A k \in DOMAIN r : r[k]["Unique Conversion Count"] = 0)

\* two zones converted to by different numbers of objects, one of them by none
\* although other objects are in that zone
C2_Witness ==
    /\ last.fn = "calculate_conversion_rates"
    /\ Len(last.result) >= 2
    /\ \E k \in DOMAIN last.result : last.result[k]["Unique Conversion Count"] >= 2
    /\ \E k \in DOMAIN last.result : last.result[k]["Unique Conversion Count"] = 0
    /\ \E o \in Ids : ~Visited(o, 1)

(***************************************************************************)
(* C3: in the result of calculate_zone_frequency the Count of row t is the *)
(* number of entrance-visiting objects with at least t distinct zones, and *)
(* Count never increases from one row to the next.                         *)
(***************************************************************************)
C3_FrequencyMonotone ==
    (last.fn = "calculate_zone_frequency") =>
        LET r == last.result
        IN /\ \A t \in DOMAIN r :
                  r[t]["Count"] = Cardinality({o \in Entrants : DistinctZones(o) >= t})
           /\ \A t \in DOMAIN r :
                  (t + 1) \in DOMAIN r => r[t + 1]["Count"] <= r[t]["Count"]

\* the counts really fall: two entrance visitors, fewer at a later threshold
C3_Witness ==
    /\ last.fn = "calculate_zone_frequency"
    /\ last.result[1]["Count"] >= 2
    /\ \E t \in DOMAIN last.result :
          /\ (t + 1) \in DOMAIN last.result
          /\ last.result[t]["Count"] > last.result[t + 1]["Count"]
          /\ last.result[t + 1]["Count"] > 0

(***************************************************************************)
(* C4: calculate_zone_frequency emits the rows '1+', '2+', ..., 'N+' in    *)
(* this order, with N = max(6, max_k + 1) - 1 and max_k the largest number *)
(* of distinct zones of an entrance-visiting object (5 when there is       *)
(* none).  At least five rows are emitted; with no entrance visitor there  *)
(* are exactly five, all with Count 0.                                     *)
(***************************************************************************)
C4_FrequencyRows ==
    (last.fn = "calculate_zone_frequency") =>
        LET r == last.result
            max_k == IF Entrants = {} THEN 5
                     ELSE CHOOSE m \in {DistinctZones(o) : o \in Entrants} :
                              \A o \in Entrants : DistinctZones(o) <= m
            N == (IF 6 >= max_k + 1 THEN 6 ELSE max_k + 1) - 1
        IN /\ DOMAIN r = 1..N
           /\ \A t \in 1..N : r[t]["Number of Zones"] = ToString(t) \o "+"
           /\ N >= 5
           /\ (Entrants = {} => N = 5 /\ \A t \in 1..5 : r[t]["Count"] = 0)

\* an entrance visitor with more than five distinct zones: more than five rows
C4_Witness ==
    /\ last.fn = "calculate_zone_frequency"
    /\ Len(last.result) > 5
    /\ last.result[Len(last.result)]["Count"] >= 1

(***************************************************************************)
(* C5: the three calculators agree on the number of entrance visitors:     *)
(* the '1+' Count of calculate_zone_frequency, unique_property_enter of    *)
(* get_summary_statistics, and total_count - missing_count of              *)
(* calculate_missing_zone1_percentage all equal the number of distinct     *)
(* objects with a row in zone 1; total_count equals unique_objects.        *)
(***************************************************************************)
C5_EntranceVisitorsAgree ==
    LET entrants == Cardinality(Entrants)
        freq == calculate_zone_frequency(df)
        stats == get_summary_statistics(df)
        miss == calculate_missing_zone1_percentage(df)
    IN /\ (last.fn = "calculate_zone_frequency") =>
              /\ last.result[1]["Count"] = entrants
              /\ last.result[1]["Count"] = stats.unique_property_enter
              /\ last.result[1]["Count"] = miss[3] - miss[2]
       /\ (last.fn = "get_summary_statistics") =>
              /\ last.result.unique_property_enter = entrants
              /\ last.result.unique_property_enter = freq[1]["Count"]
              /\ last.result.unique_property_enter = miss[3] - miss[2]
              /\ last.result.unique_objects = miss[3]
       /\ (last.fn = "calculate_missing_zone1_percentage") =>
              /\ last.result[3] - last.result[2] = entrants
              /\ last.result[3] - last.result[2] = freq[1]["Count"]
              /\ last.result[3] - last.result[2] = stats.unique_property_enter
              /\ last.result[3] = stats.unique_objects

\* some objects entered through zone 1 and some did not
C5_Witness ==
    /\ last.fn = "calculate_zone_frequency"
    /\ last.result[1]["Count"] >= 2
    /\ \E o \in Ids : ~Visited(o, 1)

(***************************************************************************)
(* C6: calculate_missing_zone1_percentage returns total_count = number of  *)
(* distinct object ids, missing_count = number of distinct object ids with *)
(* no row in zone 1, 0 <= missing_count <= total_count; the percentage is  *)
(* 100 * missing_count / total_count, within [0, 100], when total_count is *)
(* positive, and 0 when total_count is 0.                                  *)
(***************************************************************************)
C6_MissingPercentage ==
    (last.fn = "calculate_missing_zone1_percentage") =>
        LET percentage == last.result[1]
            missing_count == last.result[2]
            total_count == last.result[3]
        IN /\ total_count = Cardinality(Ids)
           /\ missing_count = Cardinality({o \in Ids : ~Visited(o, 1)})
           /\ 0 <= missing_count /\ missing_count <= total_count
           /\ percentage.den > 0
           /\ (total_count > 0 =>
                  /\ percentage.num * total_count = 100 * missing_count * percentage.den
                  /\ 0 <= percentage.num
                  /\ percentage.num <= 100 * percentage.den)
           /\ (total_count = 0 => percentage.num = 0)

\* one object of three never entered through zone 1: a third, 33.33 percent
C6_Witness ==
    /\ last.fn = "calculate_missing_zone1_percentage"
    /\ last.result[2] = 1
    /\ last.result[3] = 3

(***************************************************************************)
(* C7, as claimed: date_range is the (minimum, maximum) of the parsed      *)
(* timestamps whenever at least one entry_time value is parseable and not  *)
(* the sentinel "-1", also when other values of the column do not parse;   *)
(* it is None only when no value is both parseable and not the sentinel.   *)
(***************************************************************************)
ParsedTimes ==
    {k \in 1..MaxTime :
        \E i \in DOMAIN df.rows : df.rows[i]["zone_entry_time"] = StrCell(TimeText(k))}
Earliest == CHOOSE a \in ParsedTimes : \A b \in ParsedTimes : a <= b
Latest == CHOOSE a \in ParsedTimes : \A b \in ParsedTimes : a >= b
\* some value is neither the sentinel nor a timestamp
SomeUnparseable ==
    \E i \in DOMAIN df.rows :
        /\ df.rows[i]["zone_entry_time"] # StrCell("-1")
        /\ \A k \in 1..MaxTime : df.rows[i]["zone_entry_time"] # StrCell(TimeText(k))

C7_DateRangeDespiteUnparseable ==
    (last.fn = "get_summary_statistics") =>
        IF ParsedTimes # {}
        THEN last.result.date_range = <<Earliest, Latest>>
        ELSE last.result.date_range = None

(***************************************************************************)
(* C7, amended: get_summary_statistics always returns; date_range is the   *)
(* (minimum, maximum) of the parsed timestamps when at least one           *)
(* entry_time value differs from the sentinel "-1" and every value that    *)
(* differs from it is parseable; it is None when every value is the        *)
(* sentinel or when any value other than the sentinel does not parse.      *)
(***************************************************************************)
C7_DateRange ==
    (last.fn = "get_summary_statistics") =>
        IF ParsedTimes # {} /\ ~SomeUnparseable
        THEN last.result.date_range = <<Earliest, Latest>>
        ELSE last.result.date_range = None

\* a range over two different timestamps, with a sentinel in the column
C7_Witness ==
    /\ last.fn = "get_summary_statistics"
    /\ last.result.date_range # None
    /\ last.result.date_range[1] < last.result.date_range[2]
    /\ \E i \in DOMAIN df.rows : df.rows[i]["zone_entry_time"] = StrCell("-1")

(***************************************************************************)
(* C8: calculate_records_distribution always emits the six categories      *)
(* '1', '2-5', '6-10', '11-20', '21-50', '>50' in this order; every object *)
(* is counted in exactly one of them, so the Number of Objects values sum  *)
(* to the number of distinct object ids; each Percentage is                *)
(* 100 * count / total, and 0 when there are no objects.                   *)
(***************************************************************************)
\* the inclusive row-count range each label names; the last one is open
LabelRange == <<<<1, 1>>, <<2, 5>>, <<6, 10>>, <<11, 20>>, <<21, 50>>, <<51, 51>>>>
InLabelRange(k, x) == x >= LabelRange[k][1] /\ (k = 6 \/ x <= LabelRange[k][2])

C8_RecordsDistribution ==
    (last.fn = "calculate_records_distribution") =>
        LET d == last.result[1]
            total == Cardinality(Ids)
        IN /\ [k \in DOMAIN d |-> d[k]["Records per Object"]] =
                  <<"1", "2-5", "6-10", "11-20", "21-50", ">50">>
           /\ \A o \in Ids : Cardinality({k \in 1..6 : InLabelRange(k, RowCount(o))}) = 1
           /\ \A k \in 1..6 :
                  d[k]["Number of Objects"] =
                      Cardinality({o \in Ids : InLabelRange(k, RowCount(o))})
           /\ SeqSum(d, "Number of Objects") = total
           /\ \A k \in 1..6 :
                  /\ d[k]["Percentage"].den > 0
                  /\ (total > 0 =>
                         d[k]["Percentage"].num * total =
                             100 * d[k]["Number of Objects"] * d[k]["Percentage"].den)
                  /\ (total = 0 => d[k]["Percentage"].num = 0)

\* one object with a single row and one with more than fifty
C8_Witness ==
    /\ last.fn = "calculate_records_distribution"
    /\ last.result[1][1]["Number of Objects"] = 1
    /\ last.result[1][6]["Number of Objects"] = 1

(***************************************************************************)
(* C9: in the per-category table of calculate_enter_exit_analysis every    *)
(* row has With Exit + Without Exit = Total Records; Total Records sums to *)
(* the number of rows of the dataset; With Exit and Without Exit sum to    *)
(* the summary's with_exit and without_exit, which sum to total_records.   *)
(***************************************************************************)
C9_EnterExitTotals ==
    (last.fn = "calculate_enter_exit_analysis") =>
        LET r == last.result[1]
            summary == last.result[2]
        IN /\ \A k \in DOMAIN r :
                  r[k]["With Exit"] + r[k]["Without Exit"] = r[k]["Total Records"]
           /\ SeqSum(r, "Total Records") = Len(orig.rows)
           /\ SeqSum(r, "With Exit") = summary.with_exit
           /\ SeqSum(r, "Without Exit") = summary.without_exit
           /\ summary.with_exit + summary.without_exit = summary.total_records
           /\ summary.total_records = Len(orig.rows)

\* two categories, one of them holding rows with and rows without exit
C9_Witness ==
    /\ last.fn = "calculate_enter_exit_analysis"
    /\ Len(last.result[1]) = 2
    /\ \E k \in DOMAIN last.result[1] :
          last.result[1][k]["With Exit"] > 0 /\ last.result[1][k]["Without Exit"] > 0

(***************************************************************************)
(* C10: calculate_enter_exit_analysis emits a category row exactly for the *)
(* categories that hold at least one object, never a row with zero Total   *)
(* Records, in the fixed category order: the categories it emits are those *)
(* to which calculate_records_distribution gives a non-zero Number of      *)
(* Objects on the same dataset.                                            *)
(***************************************************************************)
C10_EmittedCategories ==
    (last.fn = "calculate_enter_exit_analysis") =>
        LET r == last.result[1]
            d == calculate_records_distribution(orig)[1]
            nonzero == SelectSeq(d, LAMBDA row : row["Number of Objects"] > 0)
        IN /\ [k \in DOMAIN r |-> r[k]["Records per Object"]] =
                  [k \in DOMAIN nonzero |-> nonzero[k]["Records per Object"]]
           /\ \A k \in DOMAIN r : r[k]["Total Records"] > 0
           /\ \A k \in 1..6 :
                  (\E m \in DOMAIN r : r[m]["Records per Object"] = CategoryNames[k])
                      <=> (\E o \in Ids : InLabelRange(k, RowCount(o)))

\* the first and the last category emitted, the four between them skipped
C10_Witness ==
    /\ last.fn = "calculate_enter_exit_analysis"
    /\ Len(last.result[1]) = 2
    /\ last.result[1][1]["Records per Object"] = "1"
    /\ last.result[1][2]["Records per Object"] = ">50"

(***************************************************************************)
(* C11: calculate_enter_exit_analysis classifies a row 'without exit'      *)
(* exactly when its exit_time is the sentinel in one of its two forms, the *)
(* number -1 or the string "-1"; every other row is 'with exit'.  The      *)
(* summary's without_exit is the number of rows with a sentinel exit_time  *)
(* and with_exit the number of the remaining rows.                         *)
(***************************************************************************)
\* the rows of the dataset whose exit_time is one of the two sentinel forms
SentinelRows ==
    {i \in DOMAIN orig.rows :
        orig.rows[i]["zone_exit_time"] \in {IntCell(-1), StrCell("-1")}}

C11_SentinelForms ==
    (last.fn = "calculate_enter_exit_analysis") =>
        LET summary == last.result[2]
        IN /\ \A i \in DOMAIN df.rows : df.rows[i]["has_exit"] <=> (i \notin SentinelRows)
           /\ summary.without_exit = Cardinality(SentinelRows)
           /\ summary.with_exit = Len(orig.rows) - Cardinality(SentinelRows)

\* both forms of the sentinel and a real exit time in one dataset
C11_Witness ==
    /\ last.fn = "calculate_enter_exit_analysis"
    /\ \E i \in DOMAIN orig.rows : orig.rows[i]["zone_exit_time"] = IntCell(-1)
    /\ \E i \in DOMAIN orig.rows : orig.rows[i]["zone_exit_time"] = StrCell("-1")
    /\ last.result[2].without_exit >= 2
    /\ last.result[2].with_exit >= 1

(***************************************************************************)
(* C12: for an upper bound B >= 1, get_group_size_histogram_data returns,  *)
(* in ascending order, one row for each row-count value v in 1..B that     *)
(* some object has (Frequency = number of objects with exactly v rows,     *)
(* never 0), followed by one overflow row labelled '>B' only when some     *)
(* object has more than B rows; all Frequency values sum to the number of  *)
(* distinct object ids.                                                    *)
(***************************************************************************)
C12_Histogram ==
    (last.fn = "get_group_size_histogram_data") =>
        LET B == last.result[1]
            h == last.result[2]
            present == {v \in 1..B : \E o \in Ids : RowCount(o) = v}
            over == {o \in Ids : RowCount(o) > B}
            n == Cardinality(present)
        IN /\ Len(h) = n + (IF over # {} THEN 1 ELSE 0)
           /\ \A k \in 1..n :
                  \E v \in present :
                      /\ Cardinality({u \in present : u < v}) = k - 1
                      /\ h[k]["Records"] = IntCell(v)
                      /\ h[k]["Frequency"] = Cardinality({o \in Ids : RowCount(o) = v})
           /\ \A k \in DOMAIN h : h[k]["Frequency"] > 0
           /\ (over # {} =>
                  /\ h[n + 1]["Records"] = StrCell(">" \o ToString(B))
                  /\ h[n + 1]["Frequency"] = Cardinality(over))
           /\ SeqSum(h, "Frequency") = Cardinality(Ids)

\* the default bound with one exact row and the overflow row
C12_Witness ==
    /\ last.fn = "get_group_size_histogram_data"
    /\ last.result[1] = DefaultMaxValue
    /\ Len(last.result[2]) = 2
    /\ last.result[2][1]["Records"].type = "int"
    /\ last.result[2][2]["Records"] = StrCell(">50")

(***************************************************************************)
(* C13: the result of each calculator depends only on the dataset as it    *)
(* was uploaded, not on the calculators invoked before it: after any       *)
(* sequence of calls on the same table, in any order and with repetitions, *)
(* the latest call returned what that calculator returns when invoked      *)
(* alone on a fresh copy of the dataset.                                   *)
(***************************************************************************)
\* calculator fn invoked alone on a fresh copy of the uploaded dataset
AloneOnFreshCopy(fn, max_value) ==
    CASE fn = "get_summary_statistics" -> get_summary_statistics(orig)
      [] fn = "calculate_conversion_rates" -> calculate_conversion_rates(orig)
      [] fn = "calculate_zone_frequency" -> calculate_zone_frequency(orig)
      [] fn = "calculate_missing_zone1_percentage" -> calculate_missing_zone1_percentage(orig)
      [] fn = "calculate_records_distribution" -> calculate_records_distribution(orig)
      [] fn = "get_group_size_histogram_data" ->
             <<max_value, get_group_size_histogram_data(orig, max_value)>>
      [] fn = "calculate_enter_exit_analysis" ->
             calculate_enter_exit_analysis(AssignHasExit(orig))

C13_OrderIndependent ==
    (last.fn # "none") =>
        last.result =
            AloneOnFreshCopy(last.fn,
                             IF last.fn = "get_group_size_histogram_data"
                             THEN last.result[1] ELSE DefaultMaxValue)

\* a calculator that ran after calculate_enter_exit_analysis had changed the table
C13_Witness ==
    /\ df # orig
    /\ last.fn = "get_summary_statistics"
    /\ Len(orig.rows) >= 2
    /\ \E i \in DOMAIN orig.rows : ~HasExit(orig.rows[i])

(***************************************************************************)
(* C14: on the empty dataset every calculator returns, every percentage is *)
(* 0 and every count is 0: calculate_missing_zone1_percentage returns      *)
(* (0, 0, 0); calculate_records_distribution reports 0 objects and 0       *)
(* percent in all six categories; calculate_enter_exit_analysis reports    *)
(* total_records, with_exit, without_exit and exit_percentage 0 and no     *)
(* category row; calculate_zone_frequency reports Count 0 for '1+'..'5+';  *)
(* calculate_conversion_rates and get_group_size_histogram_data return no  *)
(* rows; get_summary_statistics reports all counters 0.                    *)
(***************************************************************************)
\* a fraction that is the number 0 (not 0/0)
IsZero(q) == q.num = 0 /\ q.den # 0

C14_EmptyDataset ==
    (Len(orig.rows) = 0) =>
        /\ (last.fn = "calculate_missing_zone1_percentage") =>
               /\ IsZero(last.result[1])
               /\ last.result[2] = 0
               /\ last.result[3] = 0
        /\ (last.fn = "calculate_records_distribution") =>
               /\ Len(last.result[1]) = 6
               /\ \A k \in DOMAIN last.result[1] :
                      /\ last.result[1][k]["Number of Objects"] = 0
                      /\ IsZero(last.result[1][k]["Percentage"])
        /\ (last.fn = "calculate_enter_exit_analysis") =>
               /\ last.result[1] = <<>>
               /\ last.result[2].total_records = 0
               /\ last.result[2].with_exit = 0
               /\ last.result[2].without_exit = 0
               /\ IsZero(last.result[2].exit_percentage)
        /\ (last.fn = "calculate_zone_frequency") =>
               /\ DOMAIN last.result = 1..5
               /\ \A t \in 1..5 :
                      /\ last.result[t]["Number of Zones"] = ToString(t) \o "+"
                      /\ last.result[t]["Count"] = 0
        /\ (last.fn = "calculate_conversion_rates") => last.result = <<>>
        /\ (last.fn = "get_group_size_histogram_data") => last.result[2] = <<>>
        /\ (last.fn = "get_summary_statistics") =>
               /\ last.result.total_records = 0
               /\ last.result.unique_objects = 0
               /\ last.result.unique_zones = 0
               /\ last.result.unique_property_enter = 0

\* the empty dataset after a calculator that computes percentages returned
C14_Witness ==
    /\ Len(orig.rows) = 0
    /\ last.fn = "calculate_enter_exit_analysis"
    /\ IsZero(last.result[2].exit_percentage)

====
